---- MODULE Spec2Model ----
(***************************************************************************)
(* Render loop and WebGL resource lifecycle of the edge-detection demos    *)
(* (edges.js and simple-1/index.js, whose main() bodies are identical).    *)
(*                                                                         *)
(* The browser is modelled by what the WebGL and HTML specifications let   *)
(* it do: it runs pending animation-frame callbacks, detects the loss of   *)
(* the drawing buffer at any moment, fires webglcontextlost afterwards as  *)
(* a task, and fires webglcontextrestored only after a webglcontextlost    *)
(* event whose default was prevented.  GL commands are recorded as issued  *)
(* by the program (last texImage2D source, last uniform2f and viewport     *)
(* arguments); the context-lost flag decides only what the code branches   *)
(* on.                                                                     *)
(***************************************************************************)
EXTENDS Integers, Sequences, FiniteSets, TLC

\* Bounds of the model.
MaxFrames == 4      \* animation-frame handles the browser hands out
MaxStarts == 2      \* runs of start()

\* HTMLMediaElement.HAVE_CURRENT_DATA, the readiness threshold of paint().
HAVE_CURRENT_DATA == 2

\* Value of a closure variable that was declared and never assigned.
Undefined == -1

\* Size of a canvas element before any script sets it.
CanvasDefault == <<300, 150>>

\* Video resolutions the camera may deliver.
Resolutions == {<<640, 480>>, <<1024, 512>>}

\* TEXTURE_MIN_FILTER / TEXTURE_MAG_FILTER set by buildVideoTexture.
edgesFilter == "LINEAR"

simpleFilter == "NEAREST"

NoTexImage == [source |-> "none", width |-> 0, height |-> 0, pixels |-> <<>>]

VideoFrame(size) ==
    [source |-> "video", width |-> size[1], height |-> size[2], pixels |-> <<>>]

VARIABLES
    pc,                 \* "boot" before main() has run, "run" afterwards
    program,            \* closure variables of main(): the start() run that
    programInfo,        \*   assigned the handle, Undefined before the first
    vertices,
    videoTexture,
    animationFrameId,
    rafQueue,           \* handles of the pending animation-frame callbacks
    nextFrameHandle,    \* next handle requestAnimationFrame returns
    contextLost,        \* gl.isContextLost()
    lostEventQueued,    \* a webglcontextlost event waits to be dispatched
    restorable,         \* webglcontextlost was handled with preventDefault()
    texImage,           \* last gl.texImage2D issued for the video texture
    uSteps,             \* last gl.uniform2f(uSteps, ..), as two fractions
    viewport,           \* last gl.viewport(..) arguments
    canvasSize,         \* <<canvas.width, canvas.height>>
    capture,            \* startVideoCapture: "idle", "pending", "streaming", "rejected"
    readyState,         \* video.readyState
    videoSize,          \* <<video.videoWidth, video.videoHeight>>
    reported,           \* errors passed to reportError, in order
    startRuns,          \* number of start() runs so far
    lastStart,          \* the latest start(): its inputs and how it ended
    uploadedSinceStart, \* a paint() uploaded a video frame since the last start()
    frames,             \* number of paint() runs
    drawCount,          \* number of gl.drawArrays calls
    lastDraw,           \* GL state the latest gl.drawArrays call was issued with
    shade,              \* one fragment run through both demos' shader pairs
    simple,             \* loop state of simple-1/index.js, run side by side
    unsolicited         \* a webglcontextrestored event arrived that was not the
                        \*   browser's restoration of the context

closureVars == <<program, programInfo, vertices, videoTexture, animationFrameId>>
browserVars == <<rafQueue, nextFrameHandle, contextLost, lostEventQueued, restorable>>
glVars      == <<texImage, uSteps, viewport, canvasSize>>
videoVars   == <<capture, readyState, videoSize>>
historyVars == <<startRuns, lastStart, uploadedSinceStart, frames, drawCount, lastDraw>>

loopVars == <<pc, closureVars, browserVars, glVars, videoVars, reported, historyVars>>

vars == <<loopVars, shade, simple, unsolicited>>

NoDraw ==
    [program |-> Undefined, programInfo |-> Undefined, vertices |-> Undefined,
     videoTexture |-> Undefined, texImage |-> NoTexImage,
     uSteps |-> <<<<0, 1>>, <<0, 1>>>>, canvas |-> CanvasDefault,
     viewport |-> <<0, 0, CanvasDefault[1], CanvasDefault[2]>>,
     ready |-> FALSE, placeholderOnly |-> FALSE, run |-> 0, lost |-> FALSE,
     code |-> "NO_ERROR", video |-> <<0, 0>>, captureFailed |-> FALSE]

\* nullShader of a start() in which gl.createShader returned both shaders.
NoShader == "none"

NoStart ==
    [outcome |-> "none", lost |-> FALSE,
     drv |-> [vertex |-> TRUE, fragment |-> TRUE, link |-> TRUE,
              nullShader |-> NoShader]]

LoopInit ==
    /\ pc = "boot"
    /\ program = Undefined
    /\ programInfo = Undefined
    /\ vertices = Undefined
    /\ videoTexture = Undefined
    /\ animationFrameId = Undefined
    /\ rafQueue = {}
    /\ nextFrameHandle = 1
    /\ contextLost = FALSE
    /\ lostEventQueued = FALSE
    /\ restorable = FALSE
    /\ texImage = NoTexImage
    /\ uSteps = <<<<0, 1>>, <<0, 1>>>>
    /\ viewport = <<0, 0, CanvasDefault[1], CanvasDefault[2]>>
    /\ canvasSize = CanvasDefault
    /\ capture = "idle"
    /\ readyState = 0
    /\ videoSize = <<0, 0>>
    /\ reported = <<>>
    /\ startRuns = 0
    /\ lastStart = NoStart
    /\ uploadedSinceStart = FALSE
    /\ frames = 0
    /\ drawCount = 0
    /\ lastDraw = NoDraw

----------------------------------------------------------------------------
\* Helpers translated from the source.

NoError == "none"

\* video.readyState values the video element is driven through: HAVE_NOTHING,
\* HAVE_METADATA, HAVE_CURRENT_DATA, HAVE_ENOUGH_DATA (HAVE_FUTURE_DATA, 3,
\* takes the same branch of paint() as 2 and 4).
ReadyStates == {0, 1, 2, 4}

\* What the driver answers during one start(): to the COMPILE_STATUS and
\* LINK_STATUS queries, in the order vertex, fragment, link (a program
\* links only if both stages compiled), and nullShader, the stage for which
\* gl.createShader returned null (NoShader: both shaders were created).
\* `before`: the context is lost when start() is entered.  `during`: it is
\* lost at some moment of this start(), before any gl.isContextLost() it
\* asks.  From the loss on every query answers null (false), the queries
\* before it were answered true; gl.createShader on a lost context returns
\* null in one browser and an invalidated object in another.
DriverOutcomes(before, during) ==
    LET Answers == [vertex : BOOLEAN, fragment : BOOLEAN, link : BOOLEAN,
                    nullShader : {NoShader, "VERTEX_SHADER", "FRAGMENT_SHADER"}]
    IN  IF before
        THEN {d \in Answers :
                 /\ ~d.vertex /\ ~d.fragment /\ ~d.link
                 /\ d.nullShader \in {NoShader, "VERTEX_SHADER"}}
        ELSE IF during
        THEN {d \in Answers :
                 /\ d.link => d.fragment
                 /\ d.fragment => d.vertex
                 /\ d.nullShader = "VERTEX_SHADER" => ~d.vertex
                 /\ d.nullShader = "FRAGMENT_SHADER" => ~d.fragment}
        ELSE {d \in Answers :
                 /\ d.link => (d.vertex /\ d.fragment)
                 /\ d.nullShader = NoShader}

\* gl.getError() after the draw call of a frame.  `lost`: the context is
\* lost when the frame begins.  `lossNow`: it is lost during the frame,
\* after gl.drawArrays and before gl.isContextLost(): before gl.getError
\* (CONTEXT_LOST_WEBGL) or after it (the code the draw left).
GLErrors(lost, lossNow) ==
    IF lost THEN {"NO_ERROR", "CONTEXT_LOST_WEBGL"}
    ELSE IF lossNow THEN {"NO_ERROR", "INVALID_OPERATION", "CONTEXT_LOST_WEBGL"}
    ELSE {"NO_ERROR", "INVALID_OPERATION"}

\* Faulty variant: the pending callback is not cancelled.
cancelNothing(queue, id) == queue

\* window.cancelAnimationFrame(id): an unknown id (0, undefined) is ignored.
cancelAnimationFrame(queue, id) == queue \ {id}

\* Faulty variant: the callback is not handed to the browser.
requestNothing(queue, handle) == queue

\* window.requestAnimationFrame(paint): the callback joins the pending ones
\* under the handle the browser returns.
requestAnimationFrame(queue, handle) == queue \cup {handle}

\* buildShader: the error it throws, NoError when it returns the shader.
\* created: gl.createShader returned a shader; with null,
\* gl.shaderSource(null, source) throws a TypeError.
buildShader(type, created, compiled, lost) ==
    IF ~created THEN "TypeError: shaderSource"
    ELSE IF ~compiled
    THEN IF ~lost THEN "Error: ShaderInfoLog " \o type ELSE NoError
    ELSE NoError

\* Faulty variant: LINK_STATUS is not checked.
buildProgramUnlinked(drv, lost) ==
    LET vs == buildShader("VERTEX_SHADER", drv.nullShader # "VERTEX_SHADER",
                          drv.vertex, lost)
        fs == buildShader("FRAGMENT_SHADER", drv.nullShader # "FRAGMENT_SHADER",
                          drv.fragment, lost)
    IN  IF vs # NoError THEN vs
        ELSE IF fs # NoError THEN fs
        ELSE NoError

\* buildProgram: the error it throws, NoError when it returns the program.
buildProgram(drv, lost) ==
    LET vs == buildShader("VERTEX_SHADER", drv.nullShader # "VERTEX_SHADER",
                          drv.vertex, lost)
        fs == buildShader("FRAGMENT_SHADER", drv.nullShader # "FRAGMENT_SHADER",
                          drv.fragment, lost)
    IN  IF vs # NoError THEN vs
        ELSE IF fs # NoError THEN fs
        ELSE IF ~drv.link
             THEN IF ~lost THEN "Error: ProgramInfoLog" ELSE NoError
             ELSE NoError

\* buildProgramInfo, buildVertices: the handle stored by start() run `run`.
buildProgramInfo(run) == run

\* Faulty variant: the geometry buffer is built once and kept across restorations.
buildVerticesOnce(run) == IF vertices = Undefined THEN run ELSE vertices

buildVertices(run) == run

\* Faulty variant: the new texture is left without its initial upload.
buildVideoTextureEmpty == NoTexImage

\* buildVideoTexture: the pixels it uploads into the new texture.
buildVideoTexture ==
    [source |-> "Uint8Array", width |-> 1, height |-> 1, pixels |-> <<0, 0, 0, 255>>]

\* Faulty variant: the frame is taken as ready from HAVE_METADATA on.
videoHasMetadata(rs) == rs >= 1

\* paint(): the test that guards the canvas resize and the texture upload.
videoIsReady(rs) == rs >= HAVE_CURRENT_DATA

\* paint(): arguments of gl.uniform2f(programInfo.uSteps, 1.0 / w, 1.0 / h),
\* each kept as the fraction <<numerator, denominator>>.
stepsOf(size) == <<<<1, size[1]>>, <<1, size[2]>>>>

\* paint(): canvas size after the frame's readiness block.
paintCanvas(ready, canvas, video) == IF ready THEN video ELSE canvas

\* Faulty variant: the viewport call is left out of the readiness block.
paintViewportStale(ready, canvas, view) == view

\* paint(): gl.viewport(0, 0, canvas.width, canvas.height), issued in the
\* readiness block after the canvas was resized to `canvas`.
paintViewport(ready, canvas, view) ==
    IF ready THEN <<0, 0, canvas[1], canvas[2]>> ELSE view

\* paint(): gl.texImage2D(.., video), issued in the readiness block.
paintTexImage(ready, tex, video) == IF ready THEN VideoFrame(video) ELSE tex

\* Faulty variant: the error code is thrown without asking gl.isContextLost().
drawErrorUnmasked(code, lost) == code # "NO_ERROR"

\* paint(): whether the error code left by the draw is thrown.
drawErrorThrown(code, lost) ==
    IF code # "NO_ERROR" THEN ~lost ELSE FALSE

----------------------------------------------------------------------------
\* src/simple-1/index.js, run side by side with edges.js: its page receives
\* the same events (the context is lost and restored at the same moments,
\* the driver and the video element answer the same).  Its state is the
\* record `simple`; each handler maps the record before to the record after.

SimpleInit ==
    [program |-> Undefined, programInfo |-> Undefined, vertices |-> Undefined,
     videoTexture |-> Undefined, animationFrameId |-> Undefined,
     rafQueue |-> {}, nextFrameHandle |-> 1,
     texImage |-> NoTexImage, filter |-> "none",
     uSteps |-> <<<<0, 1>>, <<0, 1>>>>,
     viewport |-> <<0, 0, CanvasDefault[1], CanvasDefault[2]>>,
     canvasSize |-> CanvasDefault, hint |-> <<0, 0>>,
     reported |-> <<>>, startRuns |-> 0, frames |-> 0, drawCount |-> 0]

\* buildShader of simple-1: the error it throws, NoError when it returns.
simpleBuildShader(type, created, compiled, lost) ==
    IF ~created THEN "TypeError: shaderSource"
    ELSE IF ~compiled
    THEN IF ~lost THEN "Error: ShaderInfoLog " \o type ELSE NoError
    ELSE NoError

\* buildProgram of simple-1: the error it throws, NoError when it returns.
simpleBuildProgram(drv, lost) ==
    LET vs == simpleBuildShader("VERTEX_SHADER", drv.nullShader # "VERTEX_SHADER",
                                drv.vertex, lost)
        fs == simpleBuildShader("FRAGMENT_SHADER", drv.nullShader # "FRAGMENT_SHADER",
                                drv.fragment, lost)
    IN  IF vs # NoError THEN vs
        ELSE IF fs # NoError THEN fs
        ELSE IF ~drv.link
             THEN IF ~lost THEN "Error: ProgramInfoLog" ELSE NoError
             ELSE NoError

\* start() of simple-1.
simpleStart(s, lost, drv) ==
    LET err == simpleBuildProgram(drv, lost)
        run == s.startRuns + 1
    IN  IF err # NoError
        THEN [s EXCEPT !.startRuns = run, !.reported = Append(@, err)]
        ELSE [s EXCEPT !.startRuns = run,
                       !.program = run,
                       !.programInfo = run,
                       !.vertices = run,
                       !.videoTexture = run,
                       !.texImage = [source |-> "Uint8Array", width |-> 1,
                                     height |-> 1, pixels |-> <<0, 0, 0, 255>>],
                       !.filter = simpleFilter,
                       !.animationFrameId = s.nextFrameHandle,
                       !.rafQueue = requestAnimationFrame(@, s.nextFrameHandle),
                       !.nextFrameHandle = @ + 1]

\* main() of simple-1: asks for a 1024x512 capture, calls start().
simpleMain(s, lost, drv) ==
    simpleStart([s EXCEPT !.hint = <<1024, 512>>], lost, drv)

\* Faulty variant: simple-1 without context-loss handling.
simpleOnContextLostUnhandled(s) == s

\* onContextLost(event) of simple-1.
simpleOnContextLost(s) ==
    [s EXCEPT !.rafQueue = cancelAnimationFrame(@, s.animationFrameId),
              !.animationFrameId = 0]

\* onContextRestored() of simple-1.
simpleOnContextRestored(s, lost, drv) == simpleStart(s, lost, drv)

\* paint() of simple-1, run for its pending callback if it has one; code,
\* lost, rs and video are what gl.getError(), gl.isContextLost() and the
\* video element answer during the frame.
simplePaint(s, code, lost, rs, video) ==
    IF s.rafQueue = {} THEN s
    ELSE
    LET h      == CHOOSE x \in s.rafQueue : TRUE
        ready  == rs >= 2
        canvas == IF ready THEN video ELSE s.canvasSize
        thrown == IF code # "NO_ERROR" THEN ~lost ELSE FALSE
    IN  [s EXCEPT !.uSteps = <<<<1, s.canvasSize[1]>>, <<1, s.canvasSize[2]>>>>,
                  !.canvasSize = canvas,
                  !.viewport = IF ready THEN <<0, 0, canvas[1], canvas[2]>> ELSE @,
                  !.texImage = IF ready THEN VideoFrame(video) ELSE @,
                  !.frames = @ + 1,
                  !.drawCount = @ + 1,
                  !.reported = IF thrown
                               THEN Append(@, "ReferenceError: error is not defined")
                               ELSE @,
                  !.animationFrameId = IF thrown THEN 0 ELSE s.nextFrameHandle,
                  !.rafQueue = IF thrown THEN @ \ {h}
                               ELSE requestAnimationFrame(@ \ {h}, s.nextFrameHandle),
                  !.nextFrameHandle = IF thrown THEN @ ELSE @ + 1]

\* startVideoCapture of simple-1 rejects, .catch(reportError) runs.
simpleCaptureRejected(s) ==
    [s EXCEPT !.reported = Append(@, "getUserMedia rejected")]

----------------------------------------------------------------------------
\* The two shader pairs.  A step is given per axis in texels, as the reduced
\* fraction <<n, d>>; texture coordinates are integers counting
\* 1/(2 * d) texel, so that texel centres and every tap are exact.  A colour
\* is <<r, g, b, a>>; 1.0 is ByteMax times the weight a whole texel has in a
\* filtered sample (see One).

\* Largest texel index of the sampled texture, per axis (a bound).
MaxTexel == 3

\* 1.0 as a channel value: the byte 255 of the UNSIGNED_BYTE texels.
ByteMax == 255

Palette ==
    {<<0, 0, 0, 255>>, <<255, 255, 255, 255>>, <<255, 0, 0, 255>>,
     <<0, 128, 255, 255>>}

Cells == (0..MaxTexel) \X (0..MaxTexel)

\* A texture whose centre texel <<1, 1>> and its four neighbours are free,
\* the other texels black.
Texture(c, r, l, u, d) ==
    [p \in Cells |->
        IF p = <<1, 1>> THEN c
        ELSE IF p = <<2, 1>> THEN r
        ELSE IF p = <<0, 1>> THEN l
        ELSE IF p = <<1, 2>> THEN u
        ELSE IF p = <<1, 0>> THEN d
        ELSE <<0, 0, 0, 255>>]

Textures ==
    {Texture(c, r, l, u, d) : c \in {<<0, 0, 0, 255>>, <<255, 255, 255, 255>>},
                              r \in Palette, l \in Palette,
                              u \in Palette, d \in Palette}

Abs(x) == IF x < 0 THEN -x ELSE x

Max(a, b) == IF a >= b THEN a ELSE b

Min(a, b) == IF a <= b THEN a ELSE b

RECURSIVE GCD(_, _)
GCD(a, b) == IF b = 0 THEN a ELSE GCD(b, a % b)

\* The fraction n/d in lowest terms.
Frac(n, d) == <<n \div GCD(n, d), d \div GCD(n, d)>>

\* paint(): uSteps = (1 / canvas.width, 1 / canvas.height) of the canvas
\* size read at the uniform2f call, on a texture of the video's size: the
\* step measured in texels, per axis.
stepInTexels(canvas, video) ==
    <<Frac(video[1], canvas[1]), Frac(video[2], canvas[2])>>

\* The steps of the draws that sample a video frame: the canvas had its
\* default size or the size of an earlier frame when uSteps was set.
StepVectors ==
    {stepInTexels(c, v) : c \in {CanvasDefault} \cup Resolutions, v \in Resolutions}

\* Coordinate units per texel, and the uSteps vector in coordinate units.
Units(steps) == <<2 * steps[1][2], 2 * steps[2][2]>>

StepUnits(steps) == <<2 * steps[1][1], 2 * steps[2][1]>>

\* useVideoTexture: the bound texture as the program's uSampler, with the
\* filter buildVideoTexture gave it.
Sampler(texels, filter, steps) ==
    [texels |-> texels, filter |-> filter, unit |-> Units(steps)]

\* 1.0 as a channel value of a sample taken through `sampler`.
One(sampler) == ByteMax * sampler.unit[1] * sampler.unit[2]

\* GLSL vec4 operators: a - b, a + b, abs(a), each per component.
vsub(a, b) == [i \in 1..4 |-> a[i] - b[i]]

vadd(a, b) == [i \in 1..4 |-> a[i] + b[i]]

vabs(a) == [i \in 1..4 |-> Abs(a[i])]

\* TEXTURE_WRAP_S/T = CLAMP_TO_EDGE: texel indices outside the texture
\* are those of its edge.
clampToEdge(i) == Max(0, Min(MaxTexel, i))

\* texture2D(sampler, coord).  NEAREST takes the texel that contains coord;
\* LINEAR blends the four texels whose centres surround coord, each weighted
\* by the distance of coord from the opposite centre.
texture2D(sampler, coord) ==
    LET ux == sampler.unit[1]
        uy == sampler.unit[2]
        T(i, j) == sampler.texels[<<clampToEdge(i), clampToEdge(j)>>]
    IN  IF sampler.filter = "NEAREST"
        THEN LET t == T(coord[1] \div ux, coord[2] \div uy)
             IN  [k \in 1..4 |-> ux * uy * t[k]]
        ELSE LET sx == coord[1] - (ux \div 2)
                 sy == coord[2] - (uy \div 2)
                 x0 == sx \div ux
                 y0 == sy \div uy
                 fx == sx % ux
                 fy == sy % uy
             IN  [k \in 1..4 |->
                     (ux - fx) * (uy - fy) * T(x0, y0)[k]
                   + fx * (uy - fy) * T(x0 + 1, y0)[k]
                   + (ux - fx) * fy * T(x0, y0 + 1)[k]
                   + fx * fy * T(x0 + 1, y0 + 1)[k]]

\* buildVertices: aTexCoord of the four vertices of the TRIANGLE_FAN quad
\* (0,1), (1,1), (1,0), (0,0), in coordinate units.
QuadTexCoords(unit) ==
    <<<<0, (MaxTexel + 1) * unit[2]>>,
      <<(MaxTexel + 1) * unit[1], (MaxTexel + 1) * unit[2]>>,
      <<(MaxTexel + 1) * unit[1], 0>>,
      <<0, 0>>>>

\* The two triangles of the fan.
FanTriangles == {<<1, 2, 3>>, <<1, 3, 4>>}

\* Rasteriser: the canvas has the size of the video frame, so the fragments
\* lie on the texel centres.  The triangle that covers the fragment of texel
\* `frag` and the fragment's barycentric weights in it, which sum to
\* 2 * (MaxTexel + 1).
Rasterise(frag) ==
    LET px == 2 * frag[1] + 1
        py == 2 * frag[2] + 1
        n2 == 2 * (MaxTexel + 1)
    IN  IF px + py >= n2
        THEN [tri |-> <<1, 2, 3>>, w |-> <<n2 - px, px + py - n2, n2 - py>>]
        ELSE [tri |-> <<1, 3, 4>>, w |-> <<py, px, n2 - px - py>>]

\* Rasteriser: a varying vec2 at a fragment is the weighted mean of its
\* values at the triangle's vertices.
Interpolate(v1, v2, v3, w) ==
    <<(w[1] * v1[1] + w[2] * v2[1] + w[3] * v3[1]) \div (2 * (MaxTexel + 1)),
      (w[1] * v1[2] + w[2] * v2[2] + w[3] * v3[2]) \div (2 * (MaxTexel + 1))>>

\* gl_FragColor written to the drawing buffer: clamped to [0, 1].
clampColor(c, one) == [i \in 1..4 |-> Max(0, Min(one, c[i]))]

\* edges.js, vertex stage: vTexCoord = aTexCoord.
edgesVertex(aTexCoord, steps) == aTexCoord

\* edges.js, fragment stage.
getDeltaX(sampler, coord, steps) ==
    vsub(texture2D(sampler, <<coord[1] + steps[1], coord[2]>>),
         texture2D(sampler, <<coord[1] - steps[1], coord[2]>>))

getDeltaY(sampler, coord, steps) ==
    vsub(texture2D(sampler, <<coord[1], coord[2] + steps[2]>>),
         texture2D(sampler, <<coord[1], coord[2] - steps[2]>>))

getDelta(sampler, coord, steps) ==
    vadd(vabs(getDeltaX(sampler, coord, steps)), vabs(getDeltaY(sampler, coord, steps)))

\* The coordinates getDeltaX and getDeltaY sample, in the order right, left,
\* up, down.
edgesTaps(coord, steps) ==
    <<<<coord[1] + steps[1], coord[2]>>, <<coord[1] - steps[1], coord[2]>>,
      <<coord[1], coord[2] + steps[2]>>, <<coord[1], coord[2] - steps[2]>>>>

\* Faulty variant: the value is not inverted.
edgesValueNotInverted(color, one) == Max(Max(color[1], color[2]), color[3])

\* float value = 1.0 - max(max(color.r, color.g), color.b);
edgesValue(color, one) == one - Max(Max(color[1], color[2]), color[3])

edgesFragment(sampler, vTexCoord, steps) ==
    LET value == edgesValue(getDelta(sampler, vTexCoord, steps), One(sampler))
    IN  <<value, value, value, One(sampler)>>

\* Faulty variant: the third sample coordinate is offset along x.
simpleVertexSkewed(aTexCoord, steps) ==
    <<<<aTexCoord[1] + steps[1], aTexCoord[2]>>, <<aTexCoord[1] - steps[1], aTexCoord[2]>>,
      <<aTexCoord[1] + steps[1], aTexCoord[2]>>, <<aTexCoord[1], aTexCoord[2] - steps[2]>>>>

\* simple-1/index.js, vertex stage: vSampleCoords[0..3].
simpleVertex(aTexCoord, steps) ==
    <<<<aTexCoord[1] + steps[1], aTexCoord[2]>>, <<aTexCoord[1] - steps[1], aTexCoord[2]>>,
      <<aTexCoord[1], aTexCoord[2] + steps[2]>>, <<aTexCoord[1], aTexCoord[2] - steps[2]>>>>

\* simple-1/index.js, fragment stage.
simpleValue(color, one) == one - Max(Max(color[1], color[2]), color[3])

simpleFragment(sampler, vSampleCoords) ==
    LET p0 == texture2D(sampler, vSampleCoords[1])
        p1 == texture2D(sampler, vSampleCoords[2])
        p2 == texture2D(sampler, vSampleCoords[3])
        p3 == texture2D(sampler, vSampleCoords[4])
        color == vadd(vabs(vsub(p1, p0)), vabs(vsub(p2, p3)))
        value == simpleValue(color, One(sampler))
    IN  <<value, value, value, One(sampler)>>

\* A draw: the texels of the video texture, the fragment (the texel whose
\* centre it covers) and the step uSteps holds.
ShadeInputs ==
    [texels : Textures, frag : Cells, steps : StepVectors]

NoTaps == <<<<0, 0>>, <<0, 0>>, <<0, 0>>, <<0, 0>>>>

NoShade ==
    [in |-> [texels |-> <<>>, frag |-> <<0, 0>>, steps |-> <<<<1, 1>>, <<1, 1>>>>],
     done |-> FALSE,
     vTexCoord |-> <<0, 0>>,
     edgesTaps |-> NoTaps, edgesColor |-> <<0, 0, 0, 0>>,
     simpleTaps |-> NoTaps, simpleColor |-> <<0, 0, 0, 0>>]

\* One fragment of the quad run through both pages' programs, each on its
\* own texture: LINEAR in edges.js, NEAREST in simple-1.
Shade ==
    LET in == shade.in
        q  == QuadTexCoords(Units(in.steps))
        step == StepUnits(in.steps)
        r  == Rasterise(in.frag)
        a1 == q[r.tri[1]]
        a2 == q[r.tri[2]]
        a3 == q[r.tri[3]]
        \* edges.js: the varying is vTexCoord
        vTexCoord == Interpolate(edgesVertex(a1, step), edgesVertex(a2, step),
                                 edgesVertex(a3, step), r.w)
        \* simple-1: the varyings are the four sample coordinates
        s1 == simpleVertex(a1, step)
        s2 == simpleVertex(a2, step)
        s3 == simpleVertex(a3, step)
        vSampleCoords == [i \in 1..4 |-> Interpolate(s1[i], s2[i], s3[i], r.w)]
    IN  /\ ~shade.done
        /\ shade' = [in |-> in, done |-> TRUE,
                     vTexCoord |-> vTexCoord,
                     edgesTaps |-> edgesTaps(vTexCoord, step),
                     edgesColor |-> edgesFragment(Sampler(in.texels, edgesFilter, in.steps),
                                                  vTexCoord, step),
                     simpleTaps |-> vSampleCoords,
                     simpleColor |-> simpleFragment(Sampler(in.texels, simpleFilter, in.steps),
                                                    vSampleCoords)]
        /\ UNCHANGED <<loopVars, simple, unsolicited>>

Init == LoopInit /\ shade = NoShade /\ simple = SimpleInit /\ unsolicited = FALSE

ShaderInit ==
    /\ LoopInit
    /\ simple = SimpleInit
    /\ unsolicited = FALSE
    /\ \E in \in ShadeInputs : shade = [NoShade EXCEPT !.in = in]

ShaderNext == Shade

ShaderSpec == ShaderInit /\ [][ShaderNext]_vars

----------------------------------------------------------------------------
\* start(), with the context lost or not while it runs and the driver's
\* answers drv.
start(lost, drv) ==
    LET err == buildProgram(drv, lost)
        run == startRuns + 1
    IN  /\ startRuns' = run
        /\ IF err # NoError
           THEN \* buildProgram threw before the first assignment
                /\ reported' = Append(reported, err)
                /\ lastStart' = [outcome |-> "threw", lost |-> lost, drv |-> drv]
                /\ UNCHANGED <<closureVars, rafQueue, nextFrameHandle,
                               texImage, uploadedSinceStart>>
           ELSE /\ program' = run
                /\ programInfo' = buildProgramInfo(run)
                /\ vertices' = buildVertices(run)
                /\ videoTexture' = run
                /\ texImage' = buildVideoTexture
                /\ animationFrameId' = nextFrameHandle
                /\ rafQueue' = requestAnimationFrame(rafQueue, nextFrameHandle)
                /\ nextFrameHandle' = nextFrameHandle + 1
                /\ lastStart' = [outcome |-> "returned", lost |-> lost, drv |-> drv]
                /\ uploadedSinceStart' = FALSE
                /\ UNCHANGED reported

\* main(): starts the capture task, registers the handlers, calls start().
Main(lossNow, drv) ==
    /\ pc = "boot"
    /\ pc' = "run"
    /\ capture' = "pending"
    /\ contextLost' = lossNow
    /\ lostEventQueued' = lossNow
    /\ start(lossNow, drv)
    /\ UNCHANGED <<shade, restorable, uSteps, viewport, canvasSize, readyState,
                   videoSize, frames, drawCount, lastDraw>>

\* The browser detects that the drawing buffer is lost: it sets the flag
\* and queues the webglcontextlost event.
LoseContext ==
    /\ pc = "run"
    /\ ~contextLost
    /\ contextLost' = TRUE
    /\ lostEventQueued' = TRUE
    /\ UNCHANGED <<shade, pc, closureVars, rafQueue, nextFrameHandle, restorable,
                   glVars, videoVars, reported, historyVars>>

\* Faulty variant: the handler also drops the texture handle.
OnContextLostDroppingTexture ==
    /\ lostEventQueued
    /\ lostEventQueued' = FALSE
    /\ restorable' = TRUE
    /\ rafQueue' = cancelAnimationFrame(rafQueue, animationFrameId)
    /\ animationFrameId' = 0
    /\ videoTexture' = 0
    /\ UNCHANGED <<shade, pc, program, programInfo, vertices,
                   nextFrameHandle, contextLost, glVars, videoVars, reported,
                   historyVars>>

\* onContextLost(event)
OnContextLost ==
    /\ lostEventQueued
    /\ lostEventQueued' = FALSE
    /\ restorable' = TRUE
    /\ rafQueue' = cancelAnimationFrame(rafQueue, animationFrameId)
    /\ animationFrameId' = 0
    /\ UNCHANGED <<shade, pc, program, programInfo, vertices, videoTexture,
                   nextFrameHandle, contextLost, glVars, videoVars, reported,
                   historyVars>>

\* The browser restores the drawing buffer, clears the flag and fires
\* webglcontextrestored: onContextRestored() calls start().  lossNow: the
\* buffer is lost again while start() runs.
OnContextRestored(lossNow, drv) ==
    /\ restorable
    /\ startRuns < MaxStarts
    /\ nextFrameHandle <= MaxFrames
    /\ restorable' = FALSE
    /\ contextLost' = lossNow
    /\ lostEventQueued' = lossNow
    /\ start(lossNow, drv)
    /\ UNCHANGED <<shade, pc, uSteps, viewport, canvasSize, videoVars, frames,
                   drawCount, lastDraw>>

\* paint(), run by the browser for the pending callback h; code is what
\* gl.getError() returns after the draw.  lossNow: the context, live at
\* gl.drawArrays, is lost before the frame asks gl.isContextLost().
Paint(h, code, lossNow) ==
    LET ready  == videoIsReady(readyState)
        steps  == stepsOf(canvasSize)   \* uniform2f precedes the resize
        canvas == paintCanvas(ready, canvasSize, videoSize)
        view   == paintViewport(ready, canvas, viewport)
        tex    == paintTexImage(ready, texImage, videoSize)
    IN  /\ h \in rafQueue
        /\ nextFrameHandle <= MaxFrames
        /\ lossNow => ~contextLost
        /\ contextLost' = (contextLost \/ lossNow)
        /\ lostEventQueued' = (lostEventQueued \/ lossNow)
        /\ uSteps' = steps
        /\ canvasSize' = canvas
        /\ viewport' = view
        /\ texImage' = tex
        /\ uploadedSinceStart' = (uploadedSinceStart \/ ready)
        /\ frames' = frames + 1
        /\ drawCount' = drawCount + 1
        /\ lastDraw' = [program |-> program, programInfo |-> programInfo,
                        vertices |-> vertices, videoTexture |-> videoTexture,
                        texImage |-> tex, uSteps |-> steps, canvas |-> canvas,
                        viewport |-> view, ready |-> ready,
                        placeholderOnly |-> ~(uploadedSinceStart \/ ready),
                        run |-> startRuns, lost |-> contextLost,
                        code |-> code,
                        \* video.videoWidth and videoHeight as the frame
                        \* read them, which it does in the readiness block
                        video |-> IF ready THEN videoSize ELSE <<0, 0>>,
                        captureFailed |-> (capture = "rejected")]
        /\ IF drawErrorThrown(code, contextLost \/ lossNow)
           THEN \* the throw reads the undeclared identifier `error`
                /\ reported' = Append(reported, "ReferenceError: error is not defined")
                /\ animationFrameId' = 0
                /\ rafQueue' = rafQueue \ {h}
                /\ UNCHANGED nextFrameHandle
           ELSE /\ animationFrameId' = nextFrameHandle
                /\ rafQueue' = requestAnimationFrame(rafQueue \ {h}, nextFrameHandle)
                /\ nextFrameHandle' = nextFrameHandle + 1
                /\ UNCHANGED reported
        /\ UNCHANGED <<shade, pc, program, programInfo, vertices, videoTexture,
                       restorable, videoVars, startRuns, lastStart>>

\* startVideoCapture: getUserMedia resolves, the stream is attached.
CaptureResolved ==
    /\ capture = "pending"
    /\ capture' = "streaming"
    /\ UNCHANGED <<shade, pc, closureVars, browserVars, glVars, readyState, videoSize,
                   reported, historyVars>>

\* Faulty variant: the rejection is not caught, nothing is reported.
CaptureRejectedSilently ==
    /\ capture = "pending"
    /\ capture' = "rejected"
    /\ UNCHANGED <<shade, pc, closureVars, browserVars, glVars, readyState, videoSize,
                   reported, historyVars>>

\* startVideoCapture: getUserMedia rejects, .catch(reportError) runs.
CaptureRejected ==
    /\ capture = "pending"
    /\ capture' = "rejected"
    /\ reported' = Append(reported, "getUserMedia rejected")
    /\ UNCHANGED <<shade, pc, closureVars, browserVars, glVars, readyState, videoSize,
                   historyVars>>

\* The video element decodes the attached stream: its readiness and its
\* frame size change; without a stream it stays at HAVE_NOTHING.
VideoUpdate(rs, size) ==
    /\ capture = "streaming"
    /\ <<rs, IF rs = 0 THEN <<0, 0>> ELSE size>> # <<readyState, videoSize>>
    /\ readyState' = rs
    /\ videoSize' = IF rs = 0 THEN <<0, 0>> ELSE size
    /\ UNCHANGED <<shade, pc, closureVars, browserVars, glVars, capture, reported,
                   historyVars>>

\* onContextRestored() run for a webglcontextrestored event that is not the
\* browser's restoration of the context (a browser that does not keep the
\* order, an event dispatched by a script), at any moment after main(): the
\* handler calls start() all the same, on the context as it is, and the
\* event changes nothing about the context.  lossNow: the context, live
\* when start() is entered, is lost while it runs.  One such event per run.
OnContextRestoredUnsolicited(lossNow, drv) ==
    /\ pc = "run"
    /\ ~unsolicited
    /\ startRuns < MaxStarts
    /\ nextFrameHandle <= MaxFrames
    /\ lossNow => ~contextLost
    /\ contextLost' = (contextLost \/ lossNow)
    /\ lostEventQueued' = (lostEventQueued \/ lossNow)
    /\ start(contextLost \/ lossNow, drv)
    /\ UNCHANGED <<shade, pc, restorable, uSteps, viewport, canvasSize,
                   videoVars, frames, drawCount, lastDraw>>

\* Each event reaches both pages: the handler of edges.js runs on the
\* variables, the handler of simple-1 on the record `simple`.
DoMain ==
    \E lossNow \in BOOLEAN : \E drv \in DriverOutcomes(FALSE, lossNow) :
        /\ Main(lossNow, drv)
        /\ simple' = simpleMain(simple, lossNow, drv)
        /\ UNCHANGED unsolicited

DoLoseContext == LoseContext /\ UNCHANGED <<simple, unsolicited>>

DoContextLost ==
    OnContextLost /\ simple' = simpleOnContextLost(simple) /\ UNCHANGED unsolicited

DoRestore ==
    \E lossNow \in BOOLEAN : \E drv \in DriverOutcomes(FALSE, lossNow) :
        /\ OnContextRestored(lossNow, drv)
        /\ simple' = simpleOnContextRestored(simple, lossNow, drv)
        /\ UNCHANGED unsolicited

DoPaint ==
    \E h \in rafQueue : \E lossNow \in BOOLEAN :
    \E code \in GLErrors(contextLost, lossNow) :
        /\ Paint(h, code, lossNow)
        /\ simple' = simplePaint(simple, code, contextLost \/ lossNow,
                                 readyState, videoSize)
        /\ UNCHANGED unsolicited

DoCaptureResolved == CaptureResolved /\ UNCHANGED <<simple, unsolicited>>

DoCaptureRejected ==
    CaptureRejected /\ simple' = simpleCaptureRejected(simple) /\ UNCHANGED unsolicited

DoVideoUpdate ==
    \E rs \in ReadyStates : \E size \in Resolutions :
        VideoUpdate(rs, size) /\ UNCHANGED <<simple, unsolicited>>

Next ==
    \/ DoMain
    \/ DoLoseContext
    \/ DoContextLost
    \/ DoRestore
    \/ DoPaint
    \/ DoCaptureResolved
    \/ DoCaptureRejected
    \/ DoVideoUpdate

Spec == Init /\ [][Next]_vars

DoRestoreUnsolicited ==
    \E lossNow \in BOOLEAN : \E drv \in DriverOutcomes(contextLost, lossNow) :
        /\ OnContextRestoredUnsolicited(lossNow, drv)
        /\ simple' = simpleOnContextRestored(simple, contextLost \/ lossNow, drv)
        /\ unsolicited' = TRUE

\* The pages in an environment that may also deliver restoration events out
\* of order.
OpenNext == Next \/ DoRestoreUnsolicited

OpenSpec == Init /\ [][OpenNext]_vars

\* Fair delivery of animation-frame callbacks: the browser keeps running
\* the pending callback.
LiveSpec == Spec /\ WF_vars(DoPaint)

----------------------------------------------------------------------------
\* Literals the claims are stated with.

BlackTexel ==
    [source |-> "Uint8Array", width |-> 1, height |-> 1, pixels |-> <<0, 0, 0, 255>>]

DrawErrorReport == "ReferenceError: error is not defined"

BuildErrorReports ==
    {"Error: ShaderInfoLog VERTEX_SHADER", "Error: ShaderInfoLog FRAGMENT_SHADER",
     "Error: ProgramInfoLog"}

Reported(kinds) == {i \in DOMAIN reported : reported[i] \in kinds}

----------------------------------------------------------------------------
\* C1: from the run of onContextLost until onContextRestored has handled a
\* later restoration signal, no frame callback is pending and no
\* gl.drawArrays call is issued.
C1_NoDrawWhileContextLost ==
    /\ [](restorable => rafQueue = {})
    /\ [][restorable => drawCount' = drawCount]_vars

\* A frame was pending when the context was lost: onContextLost cancelled it
\* after frames had been drawn.
C1_Witness ==
    /\ restorable
    /\ drawCount > 0
    /\ nextFrameHandle - 1 > frames
    /\ rafQueue = {}

\* C2: every draw call uses a program, a geometry buffer and a video texture
\* that were all built by the latest start() run, the one triggered by the
\* latest restoration (or by main() before any loss): never a handle built
\* before the preceding context loss, never handles of different runs.
C2_DrawUsesLatestBuild ==
    drawCount > 0 =>
        /\ lastDraw.program = lastDraw.run
        /\ lastDraw.vertices = lastDraw.run
        /\ lastDraw.videoTexture = lastDraw.run

\* A draw was issued after a restoration that followed drawn frames.
C2_Witness ==
    /\ drawCount >= 2
    /\ lastDraw.run >= 2
    /\ lastDraw.program = lastDraw.run

\* C3: at most one paint() callback is pending in the animation-frame
\* queue, whatever restoration signals arrive, those that arrive while a
\* frame is pending included.
C3_AtMostOnePendingFrame == Cardinality(rafQueue) <= 1

\* C3 as amended: at most one paint() callback is pending as long as every
\* restoration signal was the browser's restoration of a context whose loss
\* signal had been handled, one per loss, a paint() that threw included.
C3_AtMostOnePendingFrameInOrder == ~unsolicited => Cardinality(rafQueue) <= 1

\* A paint() ended by throwing, the context was then lost and restored, and
\* the restoration's start() scheduled the one pending frame.
C3_Witness ==
    /\ ~unsolicited
    /\ Reported({DrawErrorReport}) # {}
    /\ startRuns >= 2
    /\ lastStart.outcome = "returned"
    /\ Cardinality(rafQueue) = 1

\* C4: a paint() frame in which the video is not ready (readyState < 2)
\* leaves the video texture's content and size and the canvas size as they
\* were, and still issues its draw call.
C4_NotReadyFrameKeepsTexture ==
    [][(frames' = frames + 1 /\ readyState < 2) =>
          /\ texImage' = texImage
          /\ canvasSize' = canvasSize
          /\ drawCount' = drawCount + 1
          /\ lastDraw'.texImage = texImage]_vars

\* A frame was drawn with the video not ready (at HAVE_METADATA) while the
\* texture held the last real video frame.
C4_Witness ==
    /\ frames > 0
    /\ ~lastDraw.ready
    /\ readyState = 1
    /\ lastDraw.texImage.source = "video"
    /\ texImage = lastDraw.texImage

\* C5: after every start() that returned, until the first paint() frame in
\* which the video is ready, the video texture is the 1x1 opaque black texel
\* (0,0,0,255), and every draw call in that interval samples it.
C5_PlaceholderUntilFirstReadyFrame ==
    /\ (lastStart.outcome = "returned" /\ ~uploadedSinceStart) => texImage = BlackTexel
    /\ (drawCount > 0 /\ lastDraw.placeholderOnly) => lastDraw.texImage = BlackTexel

\* After a restoration the rebuilt texture is the placeholder again, although
\* a video frame had been uploaded before the loss, and a frame was drawn
\* with it.
C5_Witness ==
    /\ startRuns >= 2
    /\ lastStart.outcome = "returned"
    /\ lastDraw.run = startRuns
    /\ lastDraw.placeholderOnly
    /\ lastDraw.texImage = BlackTexel
    /\ canvasSize \in Resolutions

\* A COMPILE_STATUS or LINK_STATUS query of the start() was answered false.
StatusQueryFailed(drv) ==
    \/ drv.nullShader # "VERTEX_SHADER" /\ ~drv.vertex
    \/ drv.nullShader = NoShader /\ ~drv.link

\* C6: a start() in which a shader stage fails to compile or the program
\* fails to link: with the context not lost, the error with the driver's log
\* of the first failing stage is reported and nothing is built or scheduled;
\* with the context lost, nothing is reported, the build completes and a
\* new frame callback is scheduled.
C6_BuildFailureMaskedByContextLoss ==
    [][(startRuns' = startRuns + 1 /\ StatusQueryFailed(lastStart'.drv)) =>
          IF ~lastStart'.lost
          THEN /\ lastStart'.outcome = "threw"
               /\ Len(reported') = Len(reported) + 1
               /\ reported'[Len(reported')] =
                      (IF ~lastStart'.drv.vertex
                       THEN "Error: ShaderInfoLog VERTEX_SHADER"
                       ELSE IF ~lastStart'.drv.fragment
                       THEN "Error: ShaderInfoLog FRAGMENT_SHADER"
                       ELSE "Error: ProgramInfoLog")
               /\ rafQueue' = rafQueue
          ELSE /\ lastStart'.outcome = "returned"
               /\ reported' = reported
               /\ program' = startRuns'
               /\ videoTexture' = startRuns'
               /\ animationFrameId' \in rafQueue' \ rafQueue]_vars

\* C7, with the context taken as it is when the frame begins: a paint()
\* frame whose draw leaves an error code: with the context not lost, one
\* error is reported and no next frame callback is scheduled; with the
\* context lost, nothing is reported and the next callback is scheduled.
C7_DrawErrorMaskedByContextLoss ==
    [][(frames' = frames + 1 /\ lastDraw'.code # "NO_ERROR") =>
          IF ~contextLost
          THEN /\ Len(reported') = Len(reported) + 1
               /\ rafQueue' = {}
               /\ animationFrameId' = 0
               /\ nextFrameHandle' = nextFrameHandle
          ELSE /\ reported' = reported
               /\ animationFrameId' \in rafQueue' \ rafQueue
               /\ Cardinality(rafQueue') = 1]_vars

\* C7, with the context taken as gl.isContextLost() answers after
\* gl.getError() in that frame: a paint() frame whose draw leaves an error
\* code: with the context not lost, one error is reported and no next frame
\* callback is scheduled; with the context lost, nothing is reported and
\* the next callback is scheduled.
C7_DrawErrorMaskedByLossAtCheck ==
    [][(frames' = frames + 1 /\ lastDraw'.code # "NO_ERROR") =>
          IF ~contextLost'
          THEN /\ Len(reported') = Len(reported) + 1
               /\ rafQueue' = {}
               /\ animationFrameId' = 0
               /\ nextFrameHandle' = nextFrameHandle
          ELSE /\ reported' = reported
               /\ animationFrameId' \in rafQueue' \ rafQueue
               /\ Cardinality(rafQueue') = 1]_vars

\* A draw error was escalated in one frame, and in a later frame, drawn on a
\* live context that was lost before gl.isContextLost() was asked, the error
\* code the draw left was masked and the next frame scheduled.
C7_Witness ==
    /\ Reported({DrawErrorReport}) # {}
    /\ Len(reported) = 1
    /\ lastDraw.code = "INVALID_OPERATION"
    /\ ~lastDraw.lost
    /\ contextLost
    /\ animationFrameId \in rafQueue

CaptureErrorReport == "getUserMedia rejected"

\* C8: when the capture task fails, exactly one error is reported for it,
\* the failure leaves the render loop as it was (handles, pending frame
\* callback, GL state, frames drawn so far), the video never becomes ready
\* afterwards, and every frame drawn uses the black placeholder texture.
C8_CaptureFailureLeavesLoopRunning ==
    /\ [][(capture # "rejected" /\ capture' = "rejected") =>
             /\ reported' = Append(reported, CaptureErrorReport)
             /\ UNCHANGED <<closureVars, browserVars, glVars, frames, drawCount, lastDraw>>]_vars
    /\ [](capture = "rejected" =>
             /\ Cardinality(Reported({CaptureErrorReport})) = 1
             /\ readyState = 0
             /\ (drawCount > 0 => lastDraw.texImage = BlackTexel))

\* The capture task failed while a frame was pending, and frames were drawn
\* afterwards with the placeholder, the next one being scheduled.
C8_Witness ==
    /\ capture = "rejected"
    /\ lastDraw.captureFailed
    /\ drawCount >= 2
    /\ lastDraw.texImage = BlackTexel
    /\ animationFrameId \in rafQueue

\* C9: at every draw call the step uniform equals (1/canvas.width,
\* 1/canvas.height) for the canvas size in effect at that draw call.
C9_StepsMatchCanvasAtDraw ==
    drawCount > 0 =>
        lastDraw.uSteps = <<<<1, lastDraw.canvas[1]>>, <<1, lastDraw.canvas[2]>>>>

\* C10: in every paint() frame in which the video is ready, the canvas has
\* the video's width and height and the viewport covers that size when the
\* draw call of the frame is issued.
C10_CanvasTracksVideoBeforeDraw ==
    (drawCount > 0 /\ lastDraw.ready) =>
        /\ lastDraw.canvas = lastDraw.video
        /\ lastDraw.viewport = <<0, 0, lastDraw.video[1], lastDraw.video[2]>>

\* A ready frame was drawn in which the canvas was resized: the video
\* resolution had changed from 640x480 to 1024x512 since the frame before.
C10_Witness ==
    /\ drawCount >= 2
    /\ lastDraw.ready
    /\ lastDraw.uSteps = <<<<1, 640>>, <<1, 480>>>>
    /\ lastDraw.video = <<1024, 512>>
    /\ lastDraw.canvas = <<1024, 512>>

\* C11: a start() that returns and a paint() frame that raises no error
\* each leave exactly one, newly scheduled, frame callback pending, and the
\* loop never rests with a callback pending: time and again a draw call
\* follows once main() has run, unless the context is lost (or the model's
\* frame handles are used up).
C11_LoopKeepsDrawing ==
    /\ [][((frames' = frames + 1 \/ startRuns' = startRuns + 1)
              /\ reported' = reported) =>
             /\ Cardinality(rafQueue') = 1
             /\ rafQueue' \cap rafQueue = {}
             /\ animationFrameId' \in rafQueue']_vars
    /\ []<>(pc = "boot" \/ rafQueue = {} \/ contextLost \/ nextFrameHandle > MaxFrames)

\* The loop ran three frames from the initial start() with no context loss
\* and no error, and the next frame is pending.
C11_Witness ==
    /\ startRuns = 1
    /\ drawCount >= 3
    /\ ~contextLost
    /\ reported = <<>>
    /\ animationFrameId \in rafQueue

\* The texture of the shaded draw as each page's program samples it.
EdgesSampler == Sampler(shade.in.texels, "LINEAR", shade.in.steps)

SimpleSampler == Sampler(shade.in.texels, "NEAREST", shade.in.steps)

\* 1.0 as a channel value of the shaded draw.
White == 255 * (2 * shade.in.steps[1][2]) * (2 * shade.in.steps[2][2])

\* The four neighbour samples (right, left, up, down) fetched at `taps`.
Fetched(sampler, taps) ==
    <<texture2D(sampler, taps[1]), texture2D(sampler, taps[2]),
      texture2D(sampler, taps[3]), texture2D(sampler, taps[4])>>

\* |right - left| + |up - down| of one colour channel.
ChannelDelta(s, ch) == Abs(s[1][ch] - s[2][ch]) + Abs(s[3][ch] - s[4][ch])

FragmentFormula(color, s) ==
    LET delta == <<ChannelDelta(s, 1), ChannelDelta(s, 2), ChannelDelta(s, 3)>>
    IN  /\ color[4] = White
        /\ color[1] = color[2] /\ color[2] = color[3]
        /\ \E ch \in 1..3 :
               /\ color[1] = White - delta[ch]
               /\ \A other \in 1..3 : delta[other] <= delta[ch]
        /\ (s[1] = s[2] /\ s[2] = s[3] /\ s[3] = s[4]) =>
               color = <<White, White, White, White>>
        /\ (\E ch \in 1..3 : delta[ch] >= White) =>
               clampColor(color, White) = <<0, 0, 0, White>>

\* C12: in both shader pairs the fragment value is 1 - max(R, G, B) of the
\* per-channel |delta_x| + |delta_y|, alpha is 1; four equal neighbour
\* samples give white, and a delta of 1.0 or more in some colour channel
\* gives black once the colour is clamped.
C12_EdgeInversionFormula ==
    shade.done =>
        LET edgesSamples  == Fetched(EdgesSampler, shade.edgesTaps)
            simpleSamples == Fetched(SimpleSampler, shade.simpleTaps)
        IN  /\ FragmentFormula(shade.edgesColor, edgesSamples)
            /\ FragmentFormula(shade.simpleColor, simpleSamples)

\* A fragment whose delta exceeds 1.0 in the red channel only: the value is
\* negative before the clamp.
C12_Witness ==
    /\ shade.done
    /\ shade.edgesColor[1] < 0
    /\ ChannelDelta(Fetched(EdgesSampler, shade.edgesTaps), 1) > White
    /\ ChannelDelta(Fetched(EdgesSampler, shade.edgesTaps), 3) = 0

\* A fragment with four equal neighbour samples that are not black.
C12_WitnessFlat ==
    /\ shade.done
    /\ shade.in.steps = <<<<1, 1>>, <<1, 1>>>>
    /\ Fetched(SimpleSampler, shade.simpleTaps) =
           [i \in 1..4 |-> <<0, 4 * 128, 4 * 255, 4 * 255>>]
    /\ shade.simpleColor = <<White, White, White, White>>

\* C13: for every fragment, step vector and texture, the 4-tap program of
\* simple-1/index.js and the delta-helper program of edges.js sample the same
\* four coordinates (right, left, up, down), and from the same four
\* neighbour samples they write the same colour: the 4-tap form run on the
\* texture of edges.js gives the colour edges.js draws, and the delta-helper
\* form run on the texture of simple-1 gives the colour simple-1 draws.
C13_ShaderFormsAgree ==
    shade.done =>
        /\ shade.simpleTaps = shade.edgesTaps
        /\ simpleFragment(EdgesSampler, shade.simpleTaps) = shade.edgesColor
        /\ edgesFragment(SimpleSampler, shade.vTexCoord,
                         <<2 * shade.in.steps[1][1], 2 * shade.in.steps[2][1]>>)
               = shade.simpleColor

\* A fragment of the first frame that shows a 640x480 video, drawn with the
\* steps of the 300x150 canvas: taps lie between texel centres and beyond
\* the texture's edge, the colour is neither white nor saturated, and the
\* two pages, which filter the texture differently, draw different colours.
C13_Witness ==
    /\ shade.done
    /\ shade.in.steps = <<<<32, 15>>, <<16, 5>>>>
    /\ shade.edgesTaps[4][2] < 0
    /\ shade.edgesColor[1] > 0
    /\ shade.edgesColor[1] < White
    /\ shade.simpleColor # shade.edgesColor

FatalReports == BuildErrorReports \cup {DrawErrorReport}

\* C14: once start() has reported a compile/link failure or paint() has
\* escalated a draw-time error, no frame callback is pending ever after (so
\* no draw call follows), whatever loss and restoration signals arrive.
C14_FatalErrorIsTerminal ==
    Reported(FatalReports) # {} => rafQueue = {}

gpuHandles == <<program, programInfo, vertices, videoTexture>>

\* C15: once main() has run, the GPU object handles and the canvas
\* dimensions change only during a paint() frame callback.
C15_StateChangesOnlyInPaint ==
    [][(pc = "run" /\ (gpuHandles' # gpuHandles \/ canvasSize' # canvasSize)) =>
          frames' = frames + 1]_vars

\* C15 as amended: the canvas dimensions change only during a paint() frame
\* callback, and the GPU object handles change only during a start() run
\* (called by main() and by the context-restoration handler); paint(), the
\* context-loss handler and the capture task leave the handles unchanged.
C15_HandlesChangeOnlyInStart ==
    [][/\ canvasSize' # canvasSize => frames' = frames + 1
       /\ gpuHandles' # gpuHandles =>
              (startRuns' = startRuns + 1 /\ frames' = frames)]_vars

\* The restoration handler replaced the handles built before the loss, and
\* a paint() had resized the canvas.
C15_Witness ==
    /\ startRuns >= 2
    /\ program = startRuns
    /\ videoTexture = startRuns
    /\ frames > 0
    /\ canvasSize \in Resolutions

\* C16: a start() run in which a stage fails to compile or the program fails
\* to link, with the context not lost, leaves program, programInfo,
\* vertices, videoTexture and animationFrameId as they were, runs no
\* geometry or texture builder and schedules no frame callback.
C16_FailedStartChangesNothing ==
    [][(startRuns' = startRuns + 1 /\ ~lastStart'.drv.link /\ ~lastStart'.lost) =>
          /\ program' = program
          /\ programInfo' = programInfo
          /\ vertices' = vertices
          /\ videoTexture' = videoTexture
          /\ animationFrameId' = animationFrameId
          /\ texImage' = texImage
          /\ rafQueue' = rafQueue
          /\ nextFrameHandle' = nextFrameHandle]_vars

\* The start() run by a restoration failed to link: the handles of the first
\* run, the uploaded video frame and the cleared animationFrameId are kept.
C16_Witness ==
    /\ startRuns = 2
    /\ lastStart.outcome = "threw"
    /\ lastStart.drv.vertex /\ lastStart.drv.fragment
    /\ program = 1 /\ vertices = 1 /\ videoTexture = 1
    /\ texImage.source = "video"
    /\ animationFrameId = 0
    /\ rafQueue = {}

\* C17: between handler runs, once main() has run, animationFrameId is
\* non-zero exactly if one paint() callback is pending, and then it is that
\* callback's handle.
C17_NonZeroIdIffFramePending ==
    pc = "run" =>
        ((animationFrameId # 0) <=>
             (Cardinality(rafQueue) = 1 /\ animationFrameId \in rafQueue))

\* C17 as amended: between handler runs animationFrameId is a frame handle
\* (neither 0 nor the undefined it holds until a start() has returned)
\* exactly if one paint() callback is pending, and then it is that
\* callback's handle; so cancelAnimationFrame(animationFrameId) cancels the
\* pending callback whenever there is one.
C17_HandleIdIffFramePending ==
    /\ (animationFrameId \notin {0, Undefined}) <=> (Cardinality(rafQueue) = 1)
    /\ rafQueue \subseteq {animationFrameId}
    /\ (animationFrameId = Undefined) => (lastStart.outcome # "returned" /\ frames = 0)

\* After a failed first start() the id is still undefined with nothing
\* pending, although the context was lost and the loss event is queued.
C17_Witness ==
    /\ pc = "run"
    /\ animationFrameId = Undefined
    /\ rafQueue = {}
    /\ lostEventQueued

\* C18: run side by side on the same events, edges.js and simple-1 are
\* always in the same loop state (same callback pending or none, same
\* resources built), have drawn in the same frames and have reported the
\* same errors; after a handled context loss neither has a frame pending.
C18_VariantsShareLoopBehaviour ==
    /\ simple.rafQueue = rafQueue
    /\ simple.animationFrameId = animationFrameId
    /\ <<simple.program, simple.programInfo, simple.vertices, simple.videoTexture>>
           = <<program, programInfo, vertices, videoTexture>>
    /\ simple.startRuns = startRuns
    /\ simple.frames = frames
    /\ simple.drawCount = drawCount
    /\ simple.reported = reported
    /\ restorable =>
           /\ rafQueue = {} /\ simple.rafQueue = {}
           /\ animationFrameId = 0 /\ simple.animationFrameId = 0

\* Both pages lost a pending frame to a context loss, were restored and
\* have drawn again, and both reported an error on the way.
C18_Witness ==
    /\ startRuns = 2
    /\ simple.program = 2
    /\ lastDraw.run = 2
    /\ simple.drawCount >= 2
    /\ Len(simple.reported) >= 1
    /\ simple.rafQueue # {}

====
